---- MODULE Spec2Model ----
(***************************************************************************)
(* MountOptions (src/mount_options.rs): the option aggregator with its     *)
(* sixteen fluent setters and the three renders build (linux), build       *)
(* (freebsd) and build_with_unprivileged.                                  *)
(*                                                                         *)
(* Text is modelled as a sequence of one-character strings, so that        *)
(* formatting, joining and appending are computed and a prefix, a suffix   *)
(* or a token of a rendered string can be inspected.  Option<T> is the     *)
(* empty sequence (None) or a one-element sequence (Some(v)).              *)
(***************************************************************************)
EXTENDS Integers, Sequences, FiniteSets, TLC

VARIABLES opts, last, ret

vars == <<opts, last, ret>>

----------------------------------------------------------------------------
(* Bounds and input sets *)

\* Spec: at most this many distinct setters, of all sixteen, are called on
\* one aggregator
MaxDistinct == 3

\* SpecRendered: at most this many distinct setters, of the nine whose field
\* some render reads, are called on one aggregator
MaxRendered == 5

UidValues == {0, 1000}
GidValues == {1000, 65534}
RootmodeValues == {40000, 16384}
FdValues == {-1, 7}
FsNameValues == {<<"m","y","d","a","t","a">>, <<"f","s">>}
CustomValues == {<<>>, <<"r","o">>, <<"f","o","o","=","b","a","r">>}
\* (uid, gid) of the calling process, as getuid() and getgid() report them
EnvValues == {[uid |-> 0, gid |-> 0], [uid |-> 1000, gid |-> 100]}

Fields == {"uid", "gid", "fs_name", "rootmode", "allow_root", "allow_other",
           "read_only", "nonempty", "default_permissions", "dont_mask",
           "no_open_support", "no_open_dir_support", "handle_killpriv",
           "write_back", "force_readdir_plus", "custom_options"}

----------------------------------------------------------------------------
(* Option<T> *)

None == <<>>
Some(v) == <<v>>
unwrap_or(o, d) == IF o = None THEN d ELSE o[1]

----------------------------------------------------------------------------
(* Text *)

Digits == <<"0","1","2","3","4","5","6","7","8","9">>

RECURSIVE fmt_u32(_)
\* Display of an unsigned integer: decimal, no padding
fmt_u32(n) == IF n < 10 THEN <<Digits[n + 1]>>
              ELSE fmt_u32(n \div 10) \o <<Digits[(n % 10) + 1]>>

\* Display of a RawFd (i32): decimal, with a minus sign when negative
fmt_i32(i) == IF i < 0 THEN <<"-">> \o fmt_u32(0 - i) ELSE fmt_u32(i)

RECURSIVE join(_, _)
\* [String]::join(sep)
join(v, sep) == IF v = <<>> THEN <<>>
                ELSE IF Len(v) = 1 THEN v[1]
                ELSE v[1] \o sep \o join(Tail(v), sep)

Comma == <<",">>

----------------------------------------------------------------------------
(* The aggregator *)

DefaultRootmode == 40000

\* #[derive(Default)]: every Option is None, every bool is false
Default ==
    [uid |-> None, gid |-> None, fs_name |-> None, rootmode |-> None,
     allow_root |-> FALSE, allow_other |-> FALSE, read_only |-> None,
     nonempty |-> FALSE, default_permissions |-> FALSE, dont_mask |-> FALSE,
     no_open_support |-> FALSE, no_open_dir_support |-> FALSE,
     handle_killpriv |-> FALSE, write_back |-> FALSE,
     force_readdir_plus |-> FALSE, custom_options |-> None]

\* mutant: Option::get_or_insert, the first value wins
uid_first_wins(o, v) == IF o.uid = None THEN [o EXCEPT !.uid = Some(v)] ELSE o
uid(o, v) == [o EXCEPT !.uid = Some(v)]
gid(o, v) == [o EXCEPT !.gid = Some(v)]
fs_name(o, v) == [o EXCEPT !.fs_name = Some(v)]
rootmode(o, v) == [o EXCEPT !.rootmode = Some(v)]
\* mutant: allow_root switches allow_other on as well
allow_root_and_other(o, v) ==
    [o EXCEPT !.allow_root = v, !.allow_other = @ \/ v]
allow_root(o, v) == [o EXCEPT !.allow_root = v]
\* mutant: the flag accumulates (|=) and cannot be taken back
allow_other_sticky(o, v) == [o EXCEPT !.allow_other = @ \/ v]
allow_other(o, v) == [o EXCEPT !.allow_other = v]
read_only(o, v) == [o EXCEPT !.read_only = Some(v)]
nonempty(o, v) == [o EXCEPT !.nonempty = v]
default_permissions(o, v) == [o EXCEPT !.default_permissions = v]
dont_mask(o, v) == [o EXCEPT !.dont_mask = v]
no_open_support(o, v) == [o EXCEPT !.no_open_support = v]
no_open_dir_support(o, v) == [o EXCEPT !.no_open_dir_support = v]
handle_killpriv(o, v) == [o EXCEPT !.handle_killpriv = v]
write_back(o, v) == [o EXCEPT !.write_back = v]
force_readdir_plus(o, v) == [o EXCEPT !.force_readdir_plus = v]
\* mutant: an empty custom text is stored as None
custom_options_skip_empty(o, v) ==
    [o EXCEPT !.custom_options = IF v = <<>> THEN None ELSE Some(v)]
custom_options(o, v) == [o EXCEPT !.custom_options = Some(v)]

----------------------------------------------------------------------------
(* Renders *)

\* Vec::push under a condition
push_if(v, c, s) == IF c THEN Append(v, s) ELSE v

\* OsString::push of "," and the custom text, when custom_options is Some
push_custom(s, c) == IF c = None THEN s ELSE s \o Comma \o c[1]

\* mutant: allow_other is pushed before allow_root
push_flags_swapped(v, o) ==
    push_if(push_if(push_if(push_if(v,
        o.allow_other, <<"a","l","l","o","w","_","o","t","h","e","r">>),
        o.allow_root, <<"a","l","l","o","w","_","r","o","o","t">>),
        o.read_only = Some(TRUE), <<"r","o">>),
        o.default_permissions,
        <<"d","e","f","a","u","l","t","_","p","e","r","m","i","s","s","i","o","n","s">>)

\* mutant: read_only.is_some() instead of matches!(read_only, Some(true))
push_flags_is_some(v, o) ==
    push_if(push_if(push_if(push_if(v,
        o.allow_root, <<"a","l","l","o","w","_","r","o","o","t">>),
        o.allow_other, <<"a","l","l","o","w","_","o","t","h","e","r">>),
        o.read_only # None, <<"r","o">>),
        o.default_permissions,
        <<"d","e","f","a","u","l","t","_","p","e","r","m","i","s","s","i","o","n","s">>)

\* the flag tokens of build (linux) and build_with_unprivileged
push_flags(v, o) ==
    push_if(push_if(push_if(push_if(v,
        o.allow_root, <<"a","l","l","o","w","_","r","o","o","t">>),
        o.allow_other, <<"a","l","l","o","w","_","o","t","h","e","r">>),
        o.read_only = Some(TRUE), <<"r","o">>),
        o.default_permissions,
        <<"d","e","f","a","u","l","t","_","p","e","r","m","i","s","s","i","o","n","s">>)

\* the vec! of build (linux)
linux_head(o, e, fd) ==
    << <<"f","d","=">> \o fmt_i32(fd),
       <<"u","s","e","r","_","i","d","=">> \o fmt_u32(unwrap_or(o.uid, e.uid)),
       <<"g","r","o","u","p","_","i","d","=">> \o fmt_u32(unwrap_or(o.gid, e.gid)),
       <<"r","o","o","t","m","o","d","e","=">>
           \o fmt_u32(unwrap_or(o.rootmode, DefaultRootmode)) >>

\* mutant: the custom text is pushed into the vector ahead of the flags
build_linux_custom_first(o, e, fd) ==
    join(push_flags(push_if(linux_head(o, e, fd), o.custom_options # None,
                            unwrap_or(o.custom_options, <<>>)), o), Comma)

\* mutant: nonempty is rendered as a flag
build_linux_nonempty(o, e, fd) ==
    push_custom(join(push_if(push_flags(linux_head(o, e, fd), o),
                             o.nonempty, <<"n","o","n","e","m","p","t","y">>), Comma),
                o.custom_options)

\* build (linux)
build_linux(o, e, fd) ==
    push_custom(join(push_flags(linux_head(o, e, fd), o), Comma), o.custom_options)

\* mutant: fsname is left out when fs_name is None
unprivileged_head_optional_fsname(o, e) ==
    push_if(<< <<"u","s","e","r","_","i","d","=">> \o fmt_u32(unwrap_or(o.uid, e.uid)),
               <<"g","r","o","u","p","_","i","d","=">> \o fmt_u32(unwrap_or(o.gid, e.gid)),
               <<"r","o","o","t","m","o","d","e","=">> \o fmt_u32(unwrap_or(o.rootmode, DefaultRootmode)) >>,
            o.fs_name # None,
            <<"f","s","n","a","m","e","=">> \o unwrap_or(o.fs_name, <<>>))

\* the vec! of build_with_unprivileged
unprivileged_head(o, e) ==
    << <<"u","s","e","r","_","i","d","=">> \o fmt_u32(unwrap_or(o.uid, e.uid)),
       <<"g","r","o","u","p","_","i","d","=">> \o fmt_u32(unwrap_or(o.gid, e.gid)),
       <<"r","o","o","t","m","o","d","e","=">>
           \o fmt_u32(unwrap_or(o.rootmode, DefaultRootmode)),
       <<"f","s","n","a","m","e","=">> \o unwrap_or(o.fs_name, <<"f","u","s","e">>) >>

build_with_unprivileged(o, e) ==
    push_custom(join(push_flags(unprivileged_head(o, e), o), Comma), o.custom_options)

\* Nmount: the ordered list of (name, value) entries; a null_opt has no value
str_opt(n, name, val) == Append(n, [name |-> name, value |-> Some(val)])
null_opt(n, name) == Append(n, [name |-> name, value |-> None])

\* mutant: read_only is wired in as a bare ro entry
build_freebsd_ro(o) ==
    LET n1 == str_opt(str_opt(<<>>, <<"f","s","t","y","p","e">>, <<"f","u","s","e","f","s">>), <<"f","r","o","m">>, <<"/","d","e","v","/","f","u","s","e">>)
        n2 == IF o.allow_other THEN null_opt(n1, <<"a","l","l","o","w","_","o","t","h","e","r">>) ELSE n1
        n3 == IF o.default_permissions THEN null_opt(n2, <<"d","e","f","a","u","l","t","_","p","e","r","m","i","s","s","i","o","n","s">>) ELSE n2
        n4 == IF o.read_only = Some(TRUE) THEN null_opt(n3, <<"r","o">>) ELSE n3
    IN  IF o.fs_name # None
        THEN str_opt(n4, <<"s","u","b","t","y","p","e","=">>, o.fs_name[1])
        ELSE n4

\* build (freebsd)
build_freebsd(o) ==
    LET n1 == str_opt(str_opt(<<>>,
                  <<"f","s","t","y","p","e">>, <<"f","u","s","e","f","s">>),
                  <<"f","r","o","m">>, <<"/","d","e","v","/","f","u","s","e">>)
        n2 == IF o.allow_other
              THEN null_opt(n1, <<"a","l","l","o","w","_","o","t","h","e","r">>)
              ELSE n1
        n3 == IF o.default_permissions
              THEN null_opt(n2,
                 <<"d","e","f","a","u","l","t","_","p","e","r","m","i","s","s","i","o","n","s">>)
              ELSE n2
    IN  IF o.fs_name # None
        THEN str_opt(n3, <<"s","u","b","t","y","p","e","=">>, o.fs_name[1])
        ELSE n3

----------------------------------------------------------------------------
(* State machine *)

\* last[f]: the value most recently passed to setter f, None if never called
NeverCalled == [f \in Fields |-> None]

Called == {f \in Fields : last[f] # None}

\* the bound on the number of distinct setters called: a setter called
\* before may always be called again
MayCall(f) == last[f] # None \/ Cardinality(Called) < MaxDistinct

MayCallRendered(f) == last[f] # None \/ Cardinality(Called) < MaxRendered

Self == "self"

\* ret: the operation last called, its argument, the different value this
\* call overwrote if the same setter was given one the time before (over),
\* the process ids a render read (env), and what the operation returned
Init ==
    /\ opts = Default
    /\ last = NeverCalled
    /\ ret = [op |-> "default", arg |-> None, over |-> None, env |-> None,
              val |-> Self]

\* a setter call: the field update, and the &mut Self it returns
Setter(f, v, o) ==
    /\ opts' = o
    /\ last' = [last EXCEPT ![f] = Some(v)]
    /\ ret' = [op |-> f, arg |-> Some(v),
               over |-> IF last[f] = Some(v) THEN None ELSE last[f],
               env |-> None, val |-> Self]

SetUid == \E v \in UidValues : Setter("uid", v, uid(opts, v))
SetGid == \E v \in GidValues : Setter("gid", v, gid(opts, v))
SetFsName == \E v \in FsNameValues : Setter("fs_name", v, fs_name(opts, v))
SetRootmode == \E v \in RootmodeValues : Setter("rootmode", v, rootmode(opts, v))
SetAllowRoot == \E v \in BOOLEAN : Setter("allow_root", v, allow_root(opts, v))
SetAllowOther == \E v \in BOOLEAN : Setter("allow_other", v, allow_other(opts, v))
SetReadOnly == \E v \in BOOLEAN : Setter("read_only", v, read_only(opts, v))
SetNonempty == \E v \in BOOLEAN : Setter("nonempty", v, nonempty(opts, v))
SetDefaultPermissions ==
    \E v \in BOOLEAN : Setter("default_permissions", v, default_permissions(opts, v))
SetDontMask == \E v \in BOOLEAN : Setter("dont_mask", v, dont_mask(opts, v))
SetNoOpenSupport ==
    \E v \in BOOLEAN : Setter("no_open_support", v, no_open_support(opts, v))
SetNoOpenDirSupport ==
    \E v \in BOOLEAN : Setter("no_open_dir_support", v, no_open_dir_support(opts, v))
SetHandleKillpriv ==
    \E v \in BOOLEAN : Setter("handle_killpriv", v, handle_killpriv(opts, v))
SetWriteBack == \E v \in BOOLEAN : Setter("write_back", v, write_back(opts, v))
SetForceReaddirPlus ==
    \E v \in BOOLEAN : Setter("force_readdir_plus", v, force_readdir_plus(opts, v))
SetCustomOptions ==
    \E v \in CustomValues : Setter("custom_options", v, custom_options(opts, v))

\* the renders take &self: the aggregator is left as it is; the linux
\* renders read the process ids when they run
BuildLinux ==
    \E fd \in FdValues, e \in EnvValues :
        /\ ret' = [op |-> "build_linux", arg |-> Some(fd), over |-> None,
                   env |-> Some(e), val |-> build_linux(opts, e, fd)]
        /\ UNCHANGED <<opts, last>>

BuildWithUnprivileged ==
    \E e \in EnvValues :
        /\ ret' = [op |-> "build_with_unprivileged", arg |-> None,
                   over |-> None, env |-> Some(e),
                   val |-> build_with_unprivileged(opts, e)]
        /\ UNCHANGED <<opts, last>>

BuildFreebsd ==
    /\ ret' = [op |-> "build_freebsd", arg |-> None, over |-> None,
               env |-> None, val |-> build_freebsd(opts)]
    /\ UNCHANGED <<opts, last>>

\* every setter and every render, at most MaxDistinct distinct setters
Next ==
    \/ MayCall("uid") /\ SetUid
    \/ MayCall("gid") /\ SetGid
    \/ MayCall("fs_name") /\ SetFsName
    \/ MayCall("rootmode") /\ SetRootmode
    \/ MayCall("allow_root") /\ SetAllowRoot
    \/ MayCall("allow_other") /\ SetAllowOther
    \/ MayCall("read_only") /\ SetReadOnly
    \/ MayCall("nonempty") /\ SetNonempty
    \/ MayCall("default_permissions") /\ SetDefaultPermissions
    \/ MayCall("dont_mask") /\ SetDontMask
    \/ MayCall("no_open_support") /\ SetNoOpenSupport
    \/ MayCall("no_open_dir_support") /\ SetNoOpenDirSupport
    \/ MayCall("handle_killpriv") /\ SetHandleKillpriv
    \/ MayCall("write_back") /\ SetWriteBack
    \/ MayCall("force_readdir_plus") /\ SetForceReaddirPlus
    \/ MayCall("custom_options") /\ SetCustomOptions
    \/ BuildLinux \/ BuildWithUnprivileged \/ BuildFreebsd

Spec == Init /\ [][Next]_vars

\* the setters of the fields some render reads and every render, at most
\* MaxRendered distinct setters
NextRendered ==
    \/ MayCallRendered("uid") /\ SetUid
    \/ MayCallRendered("gid") /\ SetGid
    \/ MayCallRendered("fs_name") /\ SetFsName
    \/ MayCallRendered("rootmode") /\ SetRootmode
    \/ MayCallRendered("allow_root") /\ SetAllowRoot
    \/ MayCallRendered("allow_other") /\ SetAllowOther
    \/ MayCallRendered("read_only") /\ SetReadOnly
    \/ MayCallRendered("default_permissions") /\ SetDefaultPermissions
    \/ MayCallRendered("custom_options") /\ SetCustomOptions
    \/ BuildLinux \/ BuildWithUnprivileged \/ BuildFreebsd

SpecRendered == Init /\ [][NextRendered]_vars

----------------------------------------------------------------------------
(* The texts and helpers the properties are stated with *)

TxtFd == <<"f","d","=">>
TxtUserId == <<"u","s","e","r","_","i","d","=">>
TxtGroupId == <<"g","r","o","u","p","_","i","d","=">>
TxtRootmode == <<"r","o","o","t","m","o","d","e","=">>
TxtFsname == <<"f","s","n","a","m","e","=">>
TxtFuse == <<"f","u","s","e">>
TxtAllowRoot == <<"a","l","l","o","w","_","r","o","o","t">>
TxtAllowOther == <<"a","l","l","o","w","_","o","t","h","e","r">>
TxtRo == <<"r","o">>
TxtDefaultPermissions == <<"d","e","f","a","u","l","t","_","p","e","r","m","i","s","s","i","o","n","s">>
TxtFstype == <<"f","s","t","y","p","e">>
TxtFusefs == <<"f","u","s","e","f","s">>
TxtFrom == <<"f","r","o","m">>
TxtDevFuse == <<"/","d","e","v","/","f","u","s","e">>
TxtSubtype == <<"s","u","b","t","y","p","e","=">>
TxtMydata == <<"m","y","d","a","t","a">>
TxtFooBar == <<"f","o","o","=","b","a","r">>
TxtRootmode40000 == <<"r","o","o","t","m","o","d","e","=","4","0","0","0","0">>
TxtScenario == <<"f","d","=","7",",","u","s","e","r","_","i","d","=","1","0","0","0",",","g","r","o","u","p","_","i","d","=","1","0","0","0",",","r","o","o","t","m","o","d","e","=","4","0","0","0","0",",","a","l","l","o","w","_","o","t","h","e","r",",","r","o">>

\* the decimal text of the numbers the inputs hold, written out
Shown(n) ==
    CASE n = -1 -> <<"-","1">>
      [] n = 0 -> <<"0">>
      [] n = 7 -> <<"7">>
      [] n = 100 -> <<"1","0","0">>
      [] n = 1000 -> <<"1","0","0","0">>
      [] n = 16384 -> <<"1","6","3","8","4">>
      [] n = 40000 -> <<"4","0","0","0","0">>
      [] n = 65534 -> <<"6","5","5","3","4">>

RECURSIVE CommasUpTo(_, _)
\* the first n tokens of t, a comma between each two
CommasUpTo(t, n) ==
    IF n = 0 THEN <<>>
    ELSE IF n = 1 THEN t[1]
    ELSE CommasUpTo(t, n - 1) \o <<",">> \o t[n]

RECURSIVE TokensFrom(_, _, _)
\* the comma-separated tokens of s from position i on, cur the token begun
TokensFrom(s, i, cur) ==
    IF i > Len(s) THEN <<cur>>
    ELSE IF s[i] = "," THEN <<cur>> \o TokensFrom(s, i + 1, <<>>)
    ELSE TokensFrom(s, i + 1, Append(cur, s[i]))

Tokens(s) == TokensFrom(s, 1, <<>>)

HasPrefix(s, p) == Len(s) >= Len(p) /\ SubSeq(s, 1, Len(p)) = p

EndsWith(s, x) == Len(s) >= Len(x) /\ SubSeq(s, Len(s) - Len(x) + 1, Len(s)) = x

NoDuplicate(t) == \A i, j \in DOMAIN t : t[i] = t[j] => i = j

OptionFields == {"uid", "gid", "fs_name", "rootmode", "read_only", "custom_options"}

\* the fields the descriptor-based render does not read
SilentFields == {"fs_name", "nonempty", "dont_mask", "no_open_support",
                 "no_open_dir_support", "handle_killpriv", "write_back",
                 "force_readdir_plus"}

StringRenders == {"build_linux", "build_with_unprivileged"}

\* what a field holds after its setter was given v
Stored(f, v) == IF f \in OptionFields THEN <<v>> ELSE v

\* the aggregator that holds, for each setter, the value it was last given
FromLast(l) ==
    [f \in Fields |->
        IF f \in OptionFields THEN l[f] ELSE l[f] = <<TRUE>>]

\* the aggregator had allow_other never been called
NeverAllowOther == FromLast([last EXCEPT !.allow_other = <<>>])

\* a rendered string without the custom text and its comma
DerivedPart(s, o) ==
    IF o.custom_options = <<>> THEN s
    ELSE SubSeq(s, 1, Len(s) - Len(o.custom_options[1]) - 1)

CustomPart(s, o) ==
    IF o.custom_options = <<>> THEN <<>>
    ELSE SubSeq(s, Len(s) - Len(o.custom_options[1]), Len(s))

Flag(c, text) == IF c THEN <<text>> ELSE <<>>

ClaimedFlags(o) ==
    Flag(o.allow_root, TxtAllowRoot) \o Flag(o.allow_other, TxtAllowOther)
    \o Flag(o.read_only = <<TRUE>>, TxtRo)
    \o Flag(o.default_permissions, TxtDefaultPermissions)

ClaimedCustom(o) ==
    IF o.custom_options = <<>> THEN <<>> ELSE <<",">> \o o.custom_options[1]

ClaimedLinuxTokens(o, e, fd) ==
    << TxtFd \o Shown(fd),
       TxtUserId \o Shown(IF o.uid = <<>> THEN e.uid ELSE o.uid[1]),
       TxtGroupId \o Shown(IF o.gid = <<>> THEN e.gid ELSE o.gid[1]),
       TxtRootmode \o Shown(IF o.rootmode = <<>> THEN 40000 ELSE o.rootmode[1]) >>
    \o ClaimedFlags(o)

ClaimedLinux(o, e, fd) ==
    LET t == ClaimedLinuxTokens(o, e, fd)
    IN  CommasUpTo(t, Len(t)) \o ClaimedCustom(o)

ClaimedNmount(o) ==
    << [name |-> TxtFstype, value |-> <<TxtFusefs>>],
       [name |-> TxtFrom, value |-> <<TxtDevFuse>>] >>
    \o (IF o.allow_other THEN << [name |-> TxtAllowOther, value |-> <<>>] >> ELSE <<>>)
    \o (IF o.default_permissions
        THEN << [name |-> TxtDefaultPermissions, value |-> <<>>] >> ELSE <<>>)
    \o (IF o.fs_name # <<>>
        THEN << [name |-> TxtSubtype, value |-> o.fs_name] >> ELSE <<>>)

\* a token that a derived option of the string renders can be
IsDerivedToken(t) ==
    \/ HasPrefix(t, TxtFd) \/ HasPrefix(t, TxtUserId) \/ HasPrefix(t, TxtGroupId)
    \/ HasPrefix(t, TxtRootmode) \/ HasPrefix(t, TxtFsname)
    \/ t \in {TxtAllowRoot, TxtAllowOther, TxtRo, TxtDefaultPermissions}

\* the render ret reports, run on aggregator o with the same inputs
SameRender(o) ==
    CASE ret.op = "build_linux" -> build_linux(o, ret.env[1], ret.arg[1])
      [] ret.op = "build_with_unprivileged" -> build_with_unprivileged(o, ret.env[1])
      [] ret.op = "build_freebsd" -> build_freebsd(o)

----------------------------------------------------------------------------
(* Properties *)

\* C1: build(d) returns the comma-joined tokens fd=<d>, user_id=<uid or the
\* process uid>, group_id=<gid or the process gid>, rootmode=<rootmode or
\* 40000>, then allow_root, allow_other, ro (read_only explicitly true) and
\* default_permissions, each iff set, then ",<custom_options>" iff set; a
\* default aggregator renders the four leading tokens and nothing else.
C1_LinuxRender ==
    ret.op = "build_linux" =>
        /\ ret.val = ClaimedLinux(opts, ret.env[1], ret.arg[1])
        /\ opts = Default =>
              ret.val = TxtFd \o Shown(ret.arg[1]) \o <<",">>
                        \o TxtUserId \o Shown(ret.env[1].uid) \o <<",">>
                        \o TxtGroupId \o Shown(ret.env[1].gid) \o <<",">>
                        \o TxtRootmode40000

C1_Witness ==
    /\ ret.op = "build_linux"
    /\ ret.arg = <<7>>
    /\ opts = [Default EXCEPT !.uid = <<1000>>, !.gid = <<1000>>,
                              !.allow_other = TRUE, !.read_only = <<TRUE>>]
    /\ ret.val = TxtScenario

\* C2: build_with_unprivileged has no fd= token among its derived options,
\* always has fsname=<fs_name or "fuse">, and its other tokens and its custom
\* text are those of build(d), in the same order.
C2_UnprivilegedRender ==
    ret.op = "build_with_unprivileged" =>
        LET u == Tokens(DerivedPart(ret.val, opts))
            fsname == TxtFsname \o (IF opts.fs_name = <<>> THEN TxtFuse
                                    ELSE opts.fs_name[1])
        IN  /\ \A i \in DOMAIN u : ~HasPrefix(u[i], TxtFd)
            /\ \E i \in DOMAIN u : u[i] = fsname
            /\ \A fd \in FdValues :
                  LET b == build_linux(opts, ret.env[1], fd)
                      l == Tokens(DerivedPart(b, opts))
                  IN  /\ SelectSeq(u, LAMBDA t : t # fsname)
                            = SelectSeq(l, LAMBDA t : ~HasPrefix(t, TxtFd))
                      /\ Len(u) = Len(l)
                      /\ CustomPart(ret.val, opts) = CustomPart(b, opts)

C2_Witness ==
    /\ ret.op = "build_with_unprivileged"
    /\ opts.fs_name = <<TxtMydata>>
    /\ opts.allow_root /\ opts.read_only = <<TRUE>>
    /\ opts.custom_options = <<TxtFooBar>>
    /\ \E i \in DOMAIN Tokens(ret.val) : Tokens(ret.val)[i] = TxtFsname \o TxtMydata

\* C3: the named-option render is the list fstype=fusefs, from=/dev/fuse, a
\* bare allow_other iff set, a bare default_permissions iff set, and the
\* entry named "subtype=" with value fs_name iff fs_name is set; nothing
\* else, whatever uid, gid, rootmode, allow_root, read_only and
\* custom_options hold.
C3_NmountRender ==
    ret.op = "build_freebsd" =>
        /\ ret.val = ClaimedNmount(opts)
        /\ opts = Default => Len(ret.val) = 2
        /\ ret.val = build_freebsd([Default EXCEPT
                                       !.allow_other = opts.allow_other,
                                       !.default_permissions = opts.default_permissions,
                                       !.fs_name = opts.fs_name])

C3_Witness ==
    /\ ret.op = "build_freebsd"
    /\ opts.fs_name = <<TxtMydata>>
    /\ opts.allow_other /\ opts.default_permissions
    /\ opts.uid # <<>>
    /\ Len(ret.val) = 5

\* C4: once custom_options was given the text c, both string renders end
\* with ",c", c unchanged, and everything before it is the derived options.
C4_CustomSuffix ==
    (ret.op \in StringRenders /\ last.custom_options # <<>>) =>
        LET c == last.custom_options[1]
            n == Len(ret.val) - Len(c) - 1
            t == Tokens(SubSeq(ret.val, 1, n))
        IN  /\ n >= 0
            /\ SubSeq(ret.val, n + 1, Len(ret.val)) = <<",">> \o c
            /\ \A i \in DOMAIN t : IsDerivedToken(t[i])

C4_Witness ==
    /\ ret.op = "build_linux"
    /\ last.custom_options = <<TxtRo>>
    /\ opts.read_only = <<TRUE>> /\ opts.default_permissions
    /\ EndsWith(ret.val, TxtRo \o <<",">> \o TxtDefaultPermissions \o <<",">> \o TxtRo)

\* C5: the aggregator is the one that holds, for each setter, the value it
\* was last given (so earlier values and the order of the calls leave no
\* trace), every render is the render of that aggregator, and no derived
\* token and no named option occurs twice.
C5_LastWriteWins ==
    /\ opts = FromLast(last)
    /\ ret.op \in StringRenders =>
          /\ ret.val = SameRender(FromLast(last))
          /\ NoDuplicate(Tokens(DerivedPart(ret.val, FromLast(last))))
    /\ ret.op = "build_freebsd" =>
          /\ ret.val = SameRender(FromLast(last))
          /\ NoDuplicate([i \in DOMAIN ret.val |-> ret.val[i].name])

C5_Witness ==
    /\ ret.op = "uid"
    /\ ret.over = <<0>> /\ ret.arg = <<1000>>
    /\ last.allow_other = <<TRUE>>
    /\ opts.uid = <<1000>>

\* C6: ro is among the derived options of a string render iff read_only is
\* explicitly true, and read_only explicitly false renders as read_only
\* unset does.
C6_ReadOnly ==
    ret.op \in StringRenders =>
        LET t == Tokens(DerivedPart(ret.val, opts))
        IN  /\ (\E i \in DOMAIN t : t[i] = TxtRo) <=> opts.read_only = <<TRUE>>
            /\ opts.read_only = <<FALSE>> =>
                  ret.val = SameRender([opts EXCEPT !.read_only = <<>>])

C6_Witness ==
    /\ ret.op = "build_with_unprivileged"
    /\ opts.read_only = <<FALSE>>
    /\ opts.allow_other
    /\ \A i \in DOMAIN Tokens(ret.val) : Tokens(ret.val)[i] # TxtRo

\* C7: after allow_other(true) and then allow_other(false) the aggregator is
\* the one it would be had allow_other never been called, and a render made
\* while allow_other was last given false is the render of that aggregator.
C7_AllowOtherToggle ==
    /\ (ret.op = "allow_other" /\ ret.over = <<TRUE>> /\ ret.arg = <<FALSE>>) =>
          opts = NeverAllowOther
    /\ (last.allow_other = <<FALSE>> /\ ret.op \in StringRenders \cup {"build_freebsd"}) =>
          ret.val = SameRender(NeverAllowOther)

C7_Witness ==
    /\ ret.op = "allow_other" /\ ret.over = <<TRUE>> /\ ret.arg = <<FALSE>>
    /\ opts.uid # <<>>
    /\ ~opts.allow_other

\* C8: the aggregator has sixteen fields, all unset or false at first; a
\* setter call stores its argument in its own field, leaves the other
\* fifteen as they were and returns the aggregator; a render changes none.
C8_SetterFrame ==
    /\ Cardinality(Fields) = 16 /\ DOMAIN opts = Fields
    /\ \A f \in Fields : opts[f] = IF f \in OptionFields THEN <<>> ELSE FALSE
    /\ [][IF ret'.op \in Fields
          THEN /\ opts'[ret'.op] = Stored(ret'.op, ret'.arg[1])
               /\ \A g \in Fields \ {ret'.op} : opts'[g] = opts[g]
               /\ ret'.val = Self
          ELSE opts' = opts]_vars

C8_Witness ==
    /\ ret.op = "rootmode" /\ ret.arg = <<16384>>
    /\ opts = [Default EXCEPT !.rootmode = <<16384>>, !.allow_root = TRUE,
                              !.nonempty = TRUE]

\* C9: the descriptor-based render does not read fs_name, nonempty,
\* dont_mask, no_open_support, no_open_dir_support, handle_killpriv,
\* write_back and force_readdir_plus: it is the render of the aggregator
\* with these eight fields reset, while the aggregator holds what their
\* setters were last given.
C9_SilentFields ==
    /\ \A f \in SilentFields :
          last[f] # <<>> => opts[f] = Stored(f, last[f][1])
    /\ ret.op = "build_linux" =>
          ret.val = SameRender([f \in Fields |->
                        IF f \in SilentFields THEN Default[f] ELSE opts[f]])

C9_Witness ==
    /\ ret.op = "build_linux"
    /\ opts.nonempty /\ opts.fs_name = <<TxtMydata>>
    /\ opts.uid = <<1000>>

\* C10: an optional field that is set stays set, an aggregator on which the
\* setter of an optional field was called is not the default one, and once
\* custom_options was called every string render ends with a comma and the
\* custom text (with a bare comma when the text is empty).
C10_SetOnly ==
    /\ [](/\ \A f \in OptionFields : last[f] # <<>> => opts[f] # <<>>
          /\ (\E f \in OptionFields : last[f] # <<>>) => opts # Default
          /\ (last.custom_options # <<>> /\ ret.op \in StringRenders) =>
                EndsWith(ret.val, <<",">> \o last.custom_options[1]))
    /\ [][\A f \in OptionFields : opts[f] # <<>> => opts'[f] # <<>>]_vars

C10_Witness ==
    /\ ret.op = "build_linux"
    /\ last.custom_options = << <<>> >>
    /\ opts.read_only = <<FALSE>>
    /\ ret.val[Len(ret.val)] = ","

====
